---- MODULE Spec2Model ----
(***************************************************************************)
(* Model of the PlatForge dynamic cloud provisioner                        *)
(* (backend/dynamic_cloud_provisioner.py): the account registry kept in    *)
(* platforge_accounts.json, the provisioner instances that load it at      *)
(* construction, and auto_provision_startup_infrastructure with its        *)
(* new-account and existing-account paths.                                 *)
(*                                                                         *)
(* Strings the code manipulates character by character (startup name,      *)
(* e-mail) are sequences of one-character strings.  A uuid4 value is the   *)
(* number of the draw: every draw differs from the earlier ones.           *)
(***************************************************************************)
EXTENDS Integers, Sequences, FiniteSets, TLC

\* ------------------------------------------------------------------ bounds
MaxCalls == 3
MaxLen == 2
MaxClassifyLen == 3

Procs == {"p1", "p2"}

\* ------------------------------------------------------- string helpers
Lower(c) ==
    CASE c = "A" -> "a"
      [] c = "B" -> "b"
      [] c = "F" -> "f"
      [] OTHER -> c

\* str.lower()
LowerStr(s) == [i \in 1..Len(s) |-> Lower(s[i])]

\* str.replace(old, new) for a one-character old and new
ReplaceChar(s, old, new) == [i \in 1..Len(s) |-> IF s[i] = old THEN new ELSE s[i]]

\* str.replace(old, '') for a one-character old
RECURSIVE RemoveChar(_, _)
RemoveChar(s, old) ==
    IF s = <<>> THEN <<>>
    ELSE IF Head(s) = old THEN RemoveChar(Tail(s), old)
         ELSE <<Head(s)>> \o RemoveChar(Tail(s), old)

\* the startups that send requests
Acme == [name |-> <<"A", " ", "b">>, email |-> <<"F", "@", "x">>]
Other == [name |-> <<"c">>, email |-> <<"g", "@", "y">>]
StartupInfos == {Acme, Other}

\* f"{name.lower().replace(' ', '-')}_{email.lower()}"
GetAccountKey(info) ==
    ReplaceChar(LowerStr(info.name), " ", "-") \o <<"_">> \o LowerStr(info.email)

\* two startups whose names and e-mails hold the character the key uses
\* as its separator
TenantInfos == { [name |-> <<"a", "_", "b">>, email |-> <<"c", "@", "x">>],
                 [name |-> <<"a">>, email |-> <<"b", "_", "c", "@", "x">>] }

Keys == { GetAccountKey(i) : i \in StartupInfos \cup TenantInfos }

\* f"{name.lower().replace(' ', '-')}-{uuid.uuid4().hex[:6]}"
NewStartupId(info, hex) ==
    [name |-> ReplaceChar(LowerStr(info.name), " ", "-"), hex |-> hex]

\* --------------------------------------------------------------- catalog
\* self.service_requirements
ServiceRequirements ==
    [ aws_rds       |-> [provider |-> "aws", type |-> "managed_service"],
      redshift      |-> [provider |-> "aws", type |-> "managed_service"],
      dynamodb      |-> [provider |-> "aws", type |-> "managed_service"],
      aws_glue      |-> [provider |-> "aws", type |-> "managed_service"],
      aws_ec2       |-> [provider |-> "aws", type |-> "managed_service"],
      gcp_cloud_sql |-> [provider |-> "gcp", type |-> "managed_service"],
      bigquery      |-> [provider |-> "gcp", type |-> "managed_service"],
      firestore     |-> [provider |-> "gcp", type |-> "managed_service"],
      gcp_dataflow  |-> [provider |-> "gcp", type |-> "managed_service"],
      gcp_compute   |-> [provider |-> "gcp", type |-> "managed_service"],
      gke           |-> [provider |-> "gcp", type |-> "managed_service"],
      gcp_pubsub    |-> [provider |-> "gcp", type |-> "managed_service"],
      looker        |-> [provider |-> "gcp", type |-> "managed_service"],
      gcp_build     |-> [provider |-> "gcp", type |-> "managed_service"],
      cloud_storage |-> [provider |-> "gcp", type |-> "managed_service"],
      s3            |-> [provider |-> "aws", type |-> "managed_service"],
      mongodb       |-> [provider |-> "mongodb_atlas", type |-> "third_party"],
      snowflake     |-> [provider |-> "snowflake", type |-> "third_party"],
      tableau       |-> [provider |-> "tableau", type |-> "third_party"],
      powerbi       |-> [provider |-> "microsoft", type |-> "third_party"],
      airflow       |-> [provider |-> "deployable", type |-> "container"],
      spark         |-> [provider |-> "deployable", type |-> "container"],
      dbt           |-> [provider |-> "deployable", type |-> "container"],
      metabase      |-> [provider |-> "deployable", type |-> "container"],
      grafana       |-> [provider |-> "deployable", type |-> "container"],
      docker        |-> [provider |-> "deployable", type |-> "container"],
      terraform     |-> [provider |-> "deployable", type |-> "tool"] ]

Catalog == DOMAIN ServiceRequirements

\* the service identifiers requests are built from, in the order in which
\* the callers' keyword maps list them
ServicePool == <<"bigquery", "aws_ec2", "metabase">>

PoolIndex(s) == CHOOSE i \in 1..Len(ServicePool) : ServicePool[i] = s

\* the service lists of length 0..MaxLen over the pool, in map order; an
\* identifier may repeat
ServiceLists ==
    UNION { { l \in [1..n -> {ServicePool[i] : i \in 1..Len(ServicePool)}] :
                \A i \in 1..(n - 1) : PoolIndex(l[i]) <= PoolIndex(l[i + 1]) } :
            n \in 0..MaxLen }

\* ------------------------------------------------------------ sequences
\* the elements of a sequence
Range(s) == { s[i] : i \in 1..Len(s) }

\* every order in which a Python set may be iterated
Orders(S) == { o \in [1..Cardinality(S) -> S] : Range(o) = S }

\* ------------------------------------------------------------ classifier
IsAws(s) == s \in Catalog /\ ServiceRequirements[s].provider = "aws"
IsGcp(s) == s \in Catalog /\ ServiceRequirements[s].provider = "gcp"
\* the third branch taken by the provider alone, whatever the type
IsThirdPartyAnyType(s) ==
    /\ s \in Catalog
    /\ ServiceRequirements[s].provider \notin {"aws", "gcp"}

\* the third branch of the loop: elif service_req["type"] == "third_party"
IsThirdParty(s) ==
    /\ s \in Catalog
    /\ ServiceRequirements[s].provider \notin {"aws", "gcp"}
    /\ ServiceRequirements[s].type = "third_party"
\* an identifier the catalog does not know taken for a deployable service
IsDeployableOrUnknown(s) ==
    \/ s \notin Catalog
    \/ /\ ServiceRequirements[s].provider \notin {"aws", "gcp"}
       /\ ServiceRequirements[s].type # "third_party"
       /\ ServiceRequirements[s].provider = "deployable"

IsDeployable(s) ==
    /\ s \in Catalog
    /\ ServiceRequirements[s].provider \notin {"aws", "gcp"}
    /\ ServiceRequirements[s].type # "third_party"
    /\ ServiceRequirements[s].provider = "deployable"

\* needs_aws_account set by any cloud or deployable service
NeedsAwsAccountAnyService(services) ==
    \E i \in 1..Len(services) : services[i] \in Catalog

\* needs_aws_account as the loop and the deployment default leave it
NeedsAwsAccount(services) ==
    LET aws == SelectSeq(services, IsAws)
        gcp == SelectSeq(services, IsGcp)
        dep == SelectSeq(services, IsDeployable)
    IN  \/ aws # <<>>
        \/ (dep # <<>> /\ ~(aws # <<>> \/ gcp # <<>>))

\* the deployment target with GCP preferred when both clouds are required
DeploymentProviderGcpFirst(needsAwsLoop, needsGcp, needsDep) ==
    IF needsDep /\ ~(needsAwsLoop \/ needsGcp) THEN "aws"
    ELSE IF needsDep THEN (IF needsGcp THEN "gcp" ELSE "aws")
    ELSE "unset"

\* requirements["deployment_provider"]; "unset" when the key is not set
DeploymentProvider(needsAwsLoop, needsGcp, needsDep) ==
    IF needsDep /\ ~(needsAwsLoop \/ needsGcp) THEN "aws"
    ELSE IF needsDep THEN (IF needsAwsLoop THEN "aws" ELSE "gcp")
    ELSE "unset"

AnalyzePipelineRequirements(services) ==
    LET aws == SelectSeq(services, IsAws)
        gcp == SelectSeq(services, IsGcp)
        tps == SelectSeq(services, IsThirdParty)
        dep == SelectSeq(services, IsDeployable)
        needsAwsLoop == aws # <<>>
        needsGcp == gcp # <<>>
        needsDep == dep # <<>>
    IN  [ needs_aws_account |-> NeedsAwsAccount(services),
          needs_gcp_project |-> needsGcp,
          needs_third_party_accounts |->
              [i \in 1..Len(tps) |->
                  [service |-> tps[i], provider |-> ServiceRequirements[tps[i]].provider]],
          needs_deployment_target |-> needsDep,
          aws_services |-> aws,
          gcp_services |-> gcp,
          third_party_services |-> tps,
          deployable_services |-> dep,
          deployment_provider |-> DeploymentProvider(needsAwsLoop, needsGcp, needsDep) ]

\* ------------------------------------------------- master connections
\* what _load_secrets and setup_master_connections leave in an instance:
\* without a secrets file the mock credentials connect to nothing
Conns ==
    { [secrets |-> FALSE, aws_connected |-> FALSE, gcp_connected |-> FALSE,
       gcp_mode |-> "single_project", gcp_project_id |-> "mock-project-123456"] }
    \cup
    { c \in [secrets : {TRUE}, aws_connected : BOOLEAN, gcp_connected : BOOLEAN,
              gcp_mode : {"single_project", "enhanced_shared_project"},
              gcp_project_id : {"platforge-shared"}] :
        \* gcp_mode is read only by a connected instance
        ~c.gcp_connected => c.gcp_mode = "single_project" }

\* ------------------------------------------- environment provisioners
\* the states a create-account request can end in: SUCCEEDED, FAILED, no
\* terminal state within max_attempts polls, or the request itself refused
AwsOutcomes == {"SUCCEEDED", "FAILED", "TIMEOUT", "REFUSED"}

\* max_attempts of the polling loop
MaxAttempts == 60

\* the State values describe_create_account_status reports
PollStates == {"IN_PROGRESS", "SUCCEEDED", "FAILED"}

\* an iteration that never gives up
PollIterationNoTimeout(attempt, status) ==
    IF status = "SUCCEEDED" THEN "SUCCEEDED"
    ELSE IF status = "FAILED" THEN "FAILED"
    ELSE "CONTINUE"

\* one iteration of "for attempt in range(max_attempts)": break with the
\* account id, raise on FAILED, raise the timeout in the last iteration, or
\* go on to the next iteration
PollIteration(attempt, status) ==
    IF status = "SUCCEEDED" THEN "SUCCEEDED"
    ELSE IF status = "FAILED" THEN "FAILED"
    ELSE IF attempt = MaxAttempts - 1 THEN "TIMEOUT"
    ELSE "CONTINUE"

\* _create_aws_subaccount: raised tells whether it ends with an exception,
\* env is the descriptor it returns otherwise
CreateAwsSubaccount(info, sid, c, outcome, accountNo) ==
    IF ~c.aws_connected
    THEN [raised |-> FALSE,
          env |-> [account_id |-> <<"123456789", ToString(sid.hex)>>,
                   account_name |-> info.name,
                   status |-> "active",
                   credentials |-> [region |-> "us-east-1"]]]
    ELSE IF outcome = "SUCCEEDED"
    THEN [raised |-> FALSE,
          env |-> [account_id |-> <<"aws", ToString(accountNo)>>,
                   account_name |-> info.name,
                   status |-> "active",
                   credentials |-> [region |-> "us-east-1"]]]
    ELSE [raised |-> TRUE]

\* how the creation of the dedicated service account can end
SaOutcomes == {"active", "creation_failed"}

\* _create_startup_service_account: the inner try catches every exception
\* of the creation, so the outer handler is never reached
CreateStartupServiceAccount(sid, c, outcome) ==
    [email |-> <<"pf-">> \o sid.name \o <<"-", ToString(sid.hex)>>,
     project_id |-> c.gcp_project_id,
     status |-> IF ~c.gcp_connected THEN "mock_created" ELSE outcome,
     note |-> IF ~c.gcp_connected THEN "mock"
              ELSE IF outcome = "active" THEN "none" ELSE "reason"]

NoEmail == <<>>

\* _create_gcp_project; _setup_startup_iam_isolation and
\* _create_startup_storage_bucket catch every exception, so the enhanced
\* branch completes whenever it is entered
CreateGcpProject(info, sid, c, outcome) ==
    IF ~c.gcp_connected
    THEN [project_id |-> c.gcp_project_id, project_name |-> "Isolated",
          status |-> "active", startup_namespace |-> sid,
          isolation_level |-> "enhanced_shared", note |-> "none",
          credentials |-> [email |-> NoEmail, project_id |-> c.gcp_project_id,
                           status |-> "none", note |-> "none"]]
    ELSE IF c.gcp_mode = "enhanced_shared_project"
    THEN [project_id |-> c.gcp_project_id, project_name |-> "Isolated",
          status |-> "active", startup_namespace |-> sid,
          isolation_level |-> "enhanced_shared", note |-> "none",
          credentials |-> CreateStartupServiceAccount(sid, c, outcome)]
    ELSE [project_id |-> c.gcp_project_id, project_name |-> "Shared-Project",
          status |-> "active", startup_namespace |-> sid,
          isolation_level |-> "basic_shared", note |-> "none",
          credentials |-> [email |-> NoEmail, project_id |-> c.gcp_project_id,
                           status |-> "none", note |-> "none"]]

\* _create_third_party_account
CreateThirdPartyAccount(tp, info) ==
    [service |-> tp.service, provider |-> tp.provider]

\* ---------------------------------------------- resource provisioners
None == [service |-> "None"]

CleanName(info) == RemoveChar(RemoveChar(LowerStr(info.name), " "), "-")
HyphenName(info) == ReplaceChar(LowerStr(info.name), " ", "-")

\* a descriptor; note is "none" when the descriptor has no 'note' key,
\* "reason" when the note quotes the exception (str(e)) and "fixed" when it
\* is a text that does not depend on the exception
Resource(service, type, name, status, note) ==
    [service |-> service, type |-> type, name |-> name, status |-> status, note |-> note]

\* _create_bigquery_dataset: needs self.gcp_master_credentials, which only
\* a connected instance has
CreateBigQueryDataset(gcpEnv, info, c, ok) ==
    LET ns == gcpEnv.startup_namespace
        dataset_id == <<"startup_">> \o ReplaceChar(ns.name, "-", "_")
                        \o <<"_", ToString(ns.hex), "_">> \o CleanName(info)
                        \o <<"_analytics">>
    IN  IF c.gcp_connected /\ ok
        THEN Resource("BigQuery", "dataset", dataset_id, "active", "none")
        ELSE Resource("BigQuery", "dataset", dataset_id, "creation_failed", "reason")

\* _create_looker_instance
CreateLookerInstance(gcpEnv, info) ==
    LET ns == gcpEnv.startup_namespace
        instance_name == <<"startup">> \o RemoveChar(RemoveChar(ns.name, "-"), "_")
                           \o <<ToString(ns.hex), "-looker">>
    IN  Resource("Looker", "analytics_platform", instance_name, "configured", "none")

\* the AWS routines: real creation can succeed only with real credentials
AwsResource(service, type, name, c, ok, okStatus, failNote) ==
    IF c.secrets /\ ok
    THEN Resource(service, type, name, okStatus, "none")
    ELSE Resource(service, type, name, "mock_created", failNote)

\* _create_rds_instance
CreateRdsInstance(info, c, ok) ==
    AwsResource("AWS RDS", "database", HyphenName(info) \o <<"-db">>, c, ok, "creating",
                "reason")

\* _create_redshift_cluster
CreateRedshiftCluster(info, c, ok) ==
    AwsResource("AWS Redshift", "data_warehouse", HyphenName(info) \o <<"-warehouse">>,
                c, ok, "creating", "fixed")

\* _create_ec2_instance
CreateEc2Instance(info, c, ok) ==
    AwsResource("AWS EC2", "compute", HyphenName(info) \o <<"-server">>, c, ok, "launching",
                "reason")

\* _create_s3_bucket
CreateS3Bucket(info, c, ok, hex) ==
    AwsResource("AWS S3", "storage", HyphenName(info) \o <<"-storage-", ToString(hex)>>,
                c, ok, "active", "reason")

HasEnv(envs, provider) == provider \in DOMAIN envs

\* the routines for EC2 and Metabase called whatever the environments are
ProvisionServiceResourceUnchecked(service, envs, info, c, ok, hex) ==
    IF service = "aws_ec2" THEN CreateEc2Instance(info, c, ok)
    ELSE IF service = "metabase"
    THEN Resource("Metabase", "dashboard", HyphenName(info) \o <<"-dashboard">>,
                  "running", "none")
    ELSE None

\* _provision_service_resource: a resource descriptor, or None
ProvisionServiceResource(service, envs, info, c, ok, hex) ==
    IF service = "bigquery"
    THEN IF HasEnv(envs, "gcp") THEN CreateBigQueryDataset(envs["gcp"], info, c, ok) ELSE None
    ELSE IF service = "looker"
    THEN IF HasEnv(envs, "gcp") THEN CreateLookerInstance(envs["gcp"], info) ELSE None
    ELSE IF service = "aws_rds"
    THEN IF HasEnv(envs, "aws") THEN CreateRdsInstance(info, c, ok) ELSE None
    ELSE IF service = "redshift"
    THEN IF HasEnv(envs, "aws") THEN CreateRedshiftCluster(info, c, ok) ELSE None
    ELSE IF service = "aws_ec2"
    THEN IF HasEnv(envs, "aws") THEN CreateEc2Instance(info, c, ok) ELSE None
    ELSE IF service = "metabase"
    THEN IF HasEnv(envs, "aws") \/ HasEnv(envs, "gcp")
         THEN Resource("Metabase", "dashboard", HyphenName(info) \o <<"-dashboard">>,
                       "running", "none")
         ELSE None
    ELSE IF service \in {"s3", "aws_s3"}
    THEN IF HasEnv(envs, "aws") THEN CreateS3Bucket(info, c, ok, hex) ELSE None
    ELSE None

\* the loop "for service in ...: resource = _provision_service_resource(...);
\* if resource: append": the descriptors produced for a list of services
RECURSIVE ProvisionAll(_, _, _, _, _, _)
ProvisionAll(services, envs, info, c, oks, hex) ==
    IF services = <<>> THEN <<>>
    ELSE LET r == ProvisionServiceResource(Head(services), envs, info, c, Head(oks), hex)
             rest == ProvisionAll(Tail(services), envs, info, c, Tail(oks), hex)
         IN  IF r.service = "None" THEN rest ELSE <<r>> \o rest

\* ------------------------------------------------------------ registry
\* a Python dict: a function on the set of its keys
EmptyDict == [x \in {} |-> 0]
DictSet(d, k, v) == [x \in (DOMAIN d) \cup {k} |-> IF x = k THEN v ELSE d[x]]

\* dict.get(field, default)
Get(rec, field, default) == IF field \in DOMAIN rec THEN rec[field] ELSE default

\* a dump that writes the top-level fields and leaves the nested lists empty
DumpRecordShallow(rec) ==
    [rec EXCEPT !.pkg_aliased = FALSE, !.provisioned_resources = <<>>]

\* json.dump writes the contents of a record only: that access_package
\* ["resources"] is the very list provisioned_resources is lost in the file
DumpRecord(rec) == [rec EXCEPT !.pkg_aliased = FALSE]
DumpAccounts(accounts) == [k \in DOMAIN accounts |-> DumpRecord(accounts[k])]

\* a load that starts every instance with the empty registry
LoadAccountsDatabaseEmpty(file, t) == [accounts |-> EmptyDict, last_updated |-> t]

\* _load_accounts_database: a missing file and a file json.load cannot
\* parse both give the empty registry
LoadAccountsDatabase(file, t) ==
    IF ~file.exists \/ ~file.parseable
    THEN [accounts |-> EmptyDict, last_updated |-> t]
    ELSE [accounts |-> file.accounts, last_updated |-> file.last_updated]

\* _save_accounts_database: the registry in memory after the save
SavedDb(d, t) == [d EXCEPT !.last_updated = t]

\* _save_accounts_database: the file after the save; when open() fails the
\* exception is caught and the file stays as it was
SavedFile(file, d, t) ==
    IF file.writable
    THEN [exists |-> TRUE, parseable |-> TRUE, writable |-> TRUE,
          accounts |-> DumpAccounts(d.accounts), last_updated |-> t]
    ELSE file

\* the record left as it was loaded
KeepLastAccessed(d, key, t) == d

\* accounts_db["accounts"][account_key]["last_accessed"] = time.time()
TouchLastAccessed(d, key, t) ==
    [d EXCEPT !.accounts[key] = DictSet(@, "last_accessed", t)]

\* the lookup with the name and e-mail as given, not normalised
FindExistingAccountRaw(d, info) ==
    (info.name \o <<"_">> \o info.email) \in DOMAIN d.accounts

\* _find_existing_account
FindExistingAccount(d, info) == GetAccountKey(info) \in DOMAIN d.accounts

\* _generate_startup_access_package
GenerateStartupAccessPackage(envs, tps, resources) ==
    [environments |-> envs, third_party_accounts |-> tps, resources |-> resources]

\* the legacy account_id of account_data: AWS preferred, then GCP
LegacyAccountId(envs) ==
    IF HasEnv(envs, "aws") THEN envs["aws"].account_id
    ELSE IF HasEnv(envs, "gcp") THEN <<envs["gcp"].project_id>>
    ELSE <<>>

\* the identifiers of the environments of a result
EnvIds(envs) ==
    [aws |-> IF HasEnv(envs, "aws") THEN envs["aws"].account_id ELSE <<>>,
     gcp |-> IF HasEnv(envs, "gcp")
             THEN <<envs["gcp"].project_id, envs["gcp"].startup_namespace,
                    envs["gcp"].credentials.email>>
             ELSE <<>>]

\* result["account_info"]; present is FALSE when the result has no such
\* key, provider is "absent" when account_info has no 'provider' key
NoAccountInfo == [present |-> FALSE, provider |-> "absent", account_id |-> <<>>]

\* the GCP branch of account_info, the same text on both paths: the e-mail
\* of the service account, or the project when the credentials have none
GcpAccountInfo(gcp_env) ==
    IF gcp_env.credentials.email # NoEmail
    THEN [present |-> TRUE, provider |-> "gcp", account_id |-> gcp_env.credentials.email]
    ELSE [present |-> TRUE, provider |-> "gcp", account_id |-> <<gcp_env.project_id>>]

\* account_info of the new-account path: AWS first, then GCP
AccountInfoNew(envs) ==
    IF HasEnv(envs, "aws")
    THEN [present |-> TRUE, provider |-> "aws", account_id |-> envs["aws"].account_id]
    ELSE IF HasEnv(envs, "gcp") THEN GcpAccountInfo(envs["gcp"])
    ELSE NoAccountInfo

\* account_info of the existing-account path: GCP first, then the legacy
\* account_id of the record, without a provider
AccountInfoExisting(existing_account) ==
    IF HasEnv(Get(existing_account, "provisioned_environments", EmptyDict), "gcp")
    THEN GcpAccountInfo(existing_account.provisioned_environments["gcp"])
    ELSE IF Get(existing_account, "account_id", <<>>) # <<>>
    THEN [present |-> TRUE, provider |-> "absent",
          account_id |-> existing_account.account_id]
    ELSE NoAccountInfo

\* ---------------------------------------------------------------- state
VARIABLES
    store,      \* platforge_accounts.json
    now,        \* the clock time.time() reads
    pc,         \* where each process is
    conn,       \* the credentials and connectivity of the deployment
    db,         \* self.accounts_db of each provisioner instance
    run,        \* the locals of the call each process is in
    result,     \* what the last call of each process returned
    submitted,  \* creation requests the cloud providers received, per key
    returned,   \* the identities every successful call returned
    uuids       \* how many uuid4 values were drawn

vars == <<store, now, pc, conn, db, run, result, submitted, returned, uuids>>

NoDb == [accounts |-> EmptyDict, last_updated |-> 0]
NoRun == [path |-> "none"]
NoResult == [status |-> "none"]

NewPcs == {"new_aws", "aws_polling", "new_gcp", "new_resources", "new_persist"}

Init ==
    /\ store = [exists |-> FALSE, parseable |-> TRUE, writable |-> TRUE,
                accounts |-> EmptyDict, last_updated |-> 0]
    /\ now = 0
    /\ pc = [p \in Procs |-> "down"]
    /\ conn \in Conns
    /\ db = [p \in Procs |-> NoDb]
    /\ run = [p \in Procs |-> NoRun]
    /\ result = [p \in Procs |-> NoResult]
    /\ submitted = [k \in Keys |-> [aws |-> 0, gcp |-> 0]]
    /\ returned = {}
    /\ uuids = 0

\* DynamicCloudProvisioner.__init__: a process starts and loads the accounts
\* file; its secrets and master connections are those of the deployment
Construct(p) ==
    /\ pc[p] = "down"
    /\ db' = [db EXCEPT ![p] = LoadAccountsDatabase(store, now)]
    /\ pc' = [pc EXCEPT ![p] = "ready"]
    /\ UNCHANGED <<store, now, conn, run, result, submitted, returned, uuids>>

\* the process ends; its provisioner instance is gone
Exit(p) ==
    /\ pc[p] = "ready"
    /\ pc' = [pc EXCEPT ![p] = "down"]
    /\ db' = [db EXCEPT ![p] = NoDb]
    /\ result' = [result EXCEPT ![p] = NoResult]
    /\ UNCHANGED <<store, now, conn, run, submitted, returned, uuids>>

\* the accounts file is damaged (a write cut short, an edit by hand): its
\* bytes are still there but json.load no longer parses them
CorruptStore ==
    /\ store.exists /\ store.parseable
    /\ store' = [store EXCEPT !.parseable = FALSE]
    /\ UNCHANGED <<now, pc, conn, db, run, result, submitted, returned, uuids>>

\* the accounts file can no longer be opened for writing (disk full,
\* permissions changed)
DiskFault ==
    /\ store.writable
    /\ store' = [store EXCEPT !.writable = FALSE]
    /\ UNCHANGED <<now, pc, conn, db, run, result, submitted, returned, uuids>>

\* the requests the AWS organization has received so far
AwsRequests == LET RECURSIVE Sum(_)
                   Sum(S) == IF S = {} THEN 0
                             ELSE LET k == CHOOSE x \in S : TRUE
                                  IN  submitted[k].aws + Sum(S \ {k})
               IN  Sum(Keys)

\* auto_provision_startup_infrastructure up to the decision between the
\* two paths; on the existing-account path the first lines of
\* _load_existing_account_infrastructure: bump last_accessed and save
AutoProvisionStart(p, info, services) ==
    /\ pc[p] = "ready"
    /\ now < MaxCalls
    /\ now' = now + 1
    /\ LET key == GetAccountKey(info) IN
       IF FindExistingAccount(db[p], info)
       THEN LET touched == TouchLastAccessed(db[p], key, now')
            IN  /\ db' = [db EXCEPT ![p] = SavedDb(touched, now')]
                /\ store' = SavedFile(store, touched, now')
                /\ run' = [run EXCEPT ![p] =
                              [path |-> "existing", info |-> info, services |-> services,
                               key |-> key]]
                /\ pc' = [pc EXCEPT ![p] = "existing"]
                /\ UNCHANGED uuids
       ELSE /\ uuids' = uuids + 1
            /\ run' = [run EXCEPT ![p] =
                            [path |-> "new", info |-> info, services |-> services,
                             key |-> key,
                             startup_id |-> NewStartupId(info, uuids'),
                             requirements |-> AnalyzePipelineRequirements(services),
                             provisioned_environments |-> EmptyDict,
                             third_party_accounts |-> <<>>,
                             provisioned_resources |-> <<>>,
                             invoked |-> <<>>]]
            /\ pc' = [pc EXCEPT ![p] = "new_aws"]
            /\ UNCHANGED <<db, store>>
    /\ result' = [result EXCEPT ![p] = NoResult]
    /\ UNCHANGED <<conn, submitted, returned>>

\* account_data of step 6
NewAccountData(r, t) ==
    [startup_id |-> r.startup_id,
     startup_info |-> r.info,
     created_at |-> t,
     last_accessed |-> t,
     provisioned_environments |-> r.provisioned_environments,
     provisioned_resources |-> r.provisioned_resources,
     pipeline_services |-> r.services,
     access_package |-> GenerateStartupAccessPackage(r.provisioned_environments,
                            r.third_party_accounts, r.provisioned_resources),
     pkg_aliased |-> TRUE,
     account_id |-> LegacyAccountId(r.provisioned_environments)]

\* the record of the run stored although step 2 failed
RegistryWithPartialRecord(d, r, t) ==
    [d EXCEPT !.accounts = DictSet(@, r.key, NewAccountData(r, t))]

\* the registry when an exception leaves the new-account path: step 6 was
\* not reached and nothing before it assigns to accounts_db
RegistryAfterFailure(d, r, t) == d

\* the exception leaves auto_provision_startup_infrastructure
ErrorResult(r, by) ==
    [status |-> "error", path |-> r.path, key |-> r.key, services |-> r.services,
     raised_by |-> by]

\* step 2, AWS: create the sub-account only if the requirements ask for it
ProvisionAwsEnvironment(p) ==
    /\ pc[p] = "new_aws"
    /\ IF run[p].requirements.needs_aws_account
       THEN \E outcome \in AwsOutcomes :
              LET aws == CreateAwsSubaccount(run[p].info, run[p].startup_id, conn,
                                             outcome, AwsRequests + 1)
                  sent == conn.aws_connected /\ outcome # "REFUSED"
              IN  /\ submitted' = IF sent
                                  THEN [submitted EXCEPT ![run[p].key].aws = @ + 1]
                                  ELSE submitted
                  /\ IF aws.raised
                     THEN /\ pc' = [pc EXCEPT ![p] = "ready"]
                          /\ result' = [result EXCEPT ![p] = ErrorResult(run[p], "_create_aws_subaccount")]
                          /\ db' = [db EXCEPT ![p] =
                                       RegistryAfterFailure(db[p], run[p], now)]
                          /\ run' = [run EXCEPT ![p] = NoRun]
                     ELSE /\ pc' = [pc EXCEPT ![p] = "new_gcp"]
                          /\ run' = [run EXCEPT ![p].provisioned_environments =
                                        DictSet(@, "aws", aws.env)]
                          /\ UNCHANGED <<result, db>>
       ELSE /\ pc' = [pc EXCEPT ![p] = "new_gcp"]
            /\ UNCHANGED <<run, result, submitted, db>>
    /\ UNCHANGED <<store, now, conn, returned, uuids>>

\* step 2, AWS, up to the creation request: _create_aws_subaccount returns
\* the mock descriptor at once, or calls create_account, which is accepted
\* and then polled, or refused
SubmitCreateAccount(p) ==
    /\ pc[p] = "new_aws"
    /\ IF ~run[p].requirements.needs_aws_account
       THEN /\ pc' = [pc EXCEPT ![p] = "new_gcp"]
            /\ UNCHANGED <<run, result, submitted>>
       ELSE IF ~conn.aws_connected
       THEN LET aws == CreateAwsSubaccount(run[p].info, run[p].startup_id, conn,
                                           "SUCCEEDED", AwsRequests)
            IN  /\ pc' = [pc EXCEPT ![p] = "new_gcp"]
                /\ run' = [run EXCEPT ![p].provisioned_environments =
                              DictSet(@, "aws", aws.env)]
                /\ UNCHANGED <<result, submitted>>
       ELSE \E accepted \in BOOLEAN :
              IF accepted
              THEN /\ submitted' = [submitted EXCEPT ![run[p].key].aws = @ + 1]
                   /\ run' = [run EXCEPT ![p] = [attempt |-> 0] @@ run[p]]
                   /\ pc' = [pc EXCEPT ![p] = "aws_polling"]
                   /\ UNCHANGED result
              ELSE /\ pc' = [pc EXCEPT ![p] = "ready"]
                   /\ result' = [result EXCEPT ![p] =
                          [outcome |-> "REFUSED"]
                             @@ ErrorResult(run[p], "_create_aws_subaccount")]
                   /\ run' = [run EXCEPT ![p] = NoRun]
                   /\ UNCHANGED submitted
    /\ UNCHANGED <<store, now, conn, db, returned, uuids>>

\* run[p] without the loop variable
AfterPolling(r) == [f \in (DOMAIN r) \ {"attempt"} |-> r[f]]

\* step 2, AWS, the polling loop: one describe_create_account_status call
\* and what the loop does with the state it reports
PollCreateAccountStatus(p) ==
    /\ pc[p] = "aws_polling"
    /\ IF run[p].attempt < MaxAttempts
       THEN \E status \in PollStates :
              LET todo == PollIteration(run[p].attempt, status) IN
              IF todo = "CONTINUE"
              THEN /\ run' = [run EXCEPT ![p].attempt = @ + 1]
                   /\ UNCHANGED <<pc, result>>
              ELSE LET aws == CreateAwsSubaccount(run[p].info, run[p].startup_id, conn,
                                                  todo, AwsRequests)
                   IN  IF aws.raised
                       THEN /\ pc' = [pc EXCEPT ![p] = "ready"]
                            /\ result' = [result EXCEPT ![p] =
                                   [outcome |-> todo]
                                      @@ ErrorResult(run[p], "_create_aws_subaccount")]
                            /\ run' = [run EXCEPT ![p] = NoRun]
                       ELSE /\ pc' = [pc EXCEPT ![p] = "new_gcp"]
                            /\ run' = [run EXCEPT ![p] =
                                   [AfterPolling(run[p]) EXCEPT !.provisioned_environments =
                                       DictSet(@, "aws", aws.env)]]
                            /\ UNCHANGED result
       ELSE \* the loop ran out without a terminal state: account_id is None
            /\ pc' = [pc EXCEPT ![p] = "ready"]
            /\ result' = [result EXCEPT ![p] =
                   [outcome |-> "NO_ACCOUNT_ID"]
                      @@ ErrorResult(run[p], "_create_aws_subaccount")]
            /\ run' = [run EXCEPT ![p] = NoRun]
    /\ UNCHANGED <<store, now, conn, db, submitted, returned, uuids>>

\* the condition under which step 2 creates the GCP environment
GcpEnvironmentWanted(requirements, c) ==
    requirements.needs_gcp_project /\ c.gcp_connected

\* step 2, GCP
ProvisionGcpEnvironment(p) ==
    /\ pc[p] = "new_gcp"
    /\ IF GcpEnvironmentWanted(run[p].requirements, conn)
       THEN \E outcome \in SaOutcomes :
              LET env == CreateGcpProject(run[p].info, run[p].startup_id, conn, outcome)
                  sent == conn.gcp_mode = "enhanced_shared_project"
              IN  /\ submitted' = IF sent
                                  THEN [submitted EXCEPT ![run[p].key].gcp = @ + 1]
                                  ELSE submitted
                  /\ run' = [run EXCEPT ![p].provisioned_environments =
                                DictSet(@, "gcp", env)]
       ELSE UNCHANGED <<run, submitted>>
    /\ pc' = [pc EXCEPT ![p] = "new_resources"]
    /\ UNCHANGED <<store, now, conn, db, result, returned, uuids>>

\* steps 3 and 4: the third-party accounts, then one resource per service
ProvisionResources(p) ==
    /\ pc[p] = "new_resources"
    /\ \E oks \in [1..Len(run[p].services) -> BOOLEAN] :
          LET tps == run[p].requirements.needs_third_party_accounts IN
          run' = [run EXCEPT
                    ![p].third_party_accounts =
                        [i \in 1..Len(tps) |-> CreateThirdPartyAccount(tps[i], run[p].info)],
                    ![p].provisioned_resources =
                        ProvisionAll(run[p].services, run[p].provisioned_environments,
                                     run[p].info, conn, oks, uuids),
                    ![p].invoked = run[p].services]
    /\ pc' = [pc EXCEPT ![p] = "new_persist"]
    /\ UNCHANGED <<store, now, conn, db, result, submitted, returned, uuids>>

\* a status that tells when a descriptor of the result is degraded
ResultStatusByDescriptors(envs, resources) ==
    IF \E i \in 1..Len(resources) : resources[i].status \in {"mock_created", "creation_failed"}
    THEN "partial"
    ELSE "success"

\* "status" of the result dictionary of both paths
ResultStatus(envs, resources) == "success"

\* steps 5 and 6 and the result: store the record, save, return
PersistNewAccount(p) ==
    /\ pc[p] = "new_persist"
    /\ LET r == run[p]
           d == [db[p] EXCEPT !.accounts = DictSet(@, r.key, NewAccountData(r, now))]
           res == [status |-> ResultStatus(r.provisioned_environments,
                                           r.provisioned_resources),
                   path |-> "new", key |-> r.key,
                   services |-> r.services,
                   startup_id |-> r.startup_id,
                   requirements |-> r.requirements,
                   provisioned_environments |-> r.provisioned_environments,
                   third_party_accounts |-> r.third_party_accounts,
                   provisioned_resources |-> r.provisioned_resources,
                   invoked |-> r.invoked,
                   appended |-> r.provisioned_resources,
                   account_info |-> AccountInfoNew(r.provisioned_environments)]
       IN  /\ db' = [db EXCEPT ![p] = SavedDb(d, now)]
           /\ store' = SavedFile(store, d, now)
           /\ result' = [result EXCEPT ![p] = res]
           /\ returned' = returned \cup
                  {[key |-> r.key, startup_id |-> r.startup_id,
                    envs |-> EnvIds(r.provisioned_environments)]}
    /\ run' = [run EXCEPT ![p] = NoRun]
    /\ pc' = [pc EXCEPT ![p] = "ready"]
    /\ UNCHANGED <<now, conn, submitted, uuids>>

\* the new descriptors put in the place of the list
ReplaceResources(existing, added) == added

\* existing_account["provisioned_resources"].append(resource), for every
\* descriptor of the loop
AppendResources(existing, added) == existing \o added

\* every requested service taken for a new one
AllRequested(requested, existing) == Range(requested)

\* the services _load_existing_account_infrastructure provisions
NewServices(requested, existing) == Range(requested) \ Range(existing)

\* the pipeline_services the existing-account path stores when it has
\* provisioned new services; order is one order of iterating the set
UpdatedPipelineServices(requested, existing, order) == order

\* the rest of _load_existing_account_infrastructure for a record without
\* the key "provisioned_resources": existing_account["provisioned_resources"]
\* raises KeyError, at the append of the first descriptor or, when the loop
\* produced none and the new pipeline_services were saved, in the result
ExistingAccountKeyError(p, r, acct, new_services, added, order) ==
    LET listed == DictSet(acct, "pipeline_services",
                          UpdatedPipelineServices(r.services, <<>>, order))
        d == [db[p] EXCEPT !.accounts[r.key] = listed]
    IN  /\ IF new_services # {} /\ added = <<>>
           THEN /\ db' = [db EXCEPT ![p] = SavedDb(d, now)]
                /\ store' = SavedFile(store, d, now)
           ELSE UNCHANGED <<db, store>>
        /\ result' = [result EXCEPT ![p] =
                          ErrorResult(r, "_load_existing_account_infrastructure")]
        /\ UNCHANGED returned

\* the rest of _load_existing_account_infrastructure: provision the
\* services the record does not list, store them, save, return
ExistingAccountDelta(p) ==
    /\ pc[p] = "existing"
    /\ LET r == run[p]
           acct == db[p].accounts[r.key]
           existing_services == Get(acct, "pipeline_services", <<>>)
           new_services == NewServices(r.services, existing_services)
       IN  \E iter \in Orders(new_services), order \in Orders(Range(r.services)),
              oks \in [1..Cardinality(new_services) -> BOOLEAN] :
             LET added == ProvisionAll(iter, acct.provisioned_environments, r.info,
                                       conn, oks, uuids)
             IN
             IF "provisioned_resources" \notin DOMAIN acct
             THEN ExistingAccountKeyError(p, r, acct, new_services, added, order)
             ELSE
             LET updated ==
                    DictSet([acct EXCEPT
                               !.provisioned_resources = AppendResources(@, added),
                               !.access_package.resources =
                                   IF acct.pkg_aliased THEN @ \o added ELSE @],
                            "pipeline_services",
                            UpdatedPipelineServices(r.services, existing_services, order))
                 final == IF new_services # {} THEN updated ELSE acct
                 d == [db[p] EXCEPT !.accounts[r.key] = final]
                 res == [status |-> ResultStatus(final.provisioned_environments,
                                                 final.provisioned_resources),
                         path |-> "existing", key |-> r.key,
                         services |-> r.services,
                         startup_id |-> final.startup_id,
                         requirements |-> AnalyzePipelineRequirements(r.services),
                         provisioned_environments |-> final.provisioned_environments,
                         third_party_accounts |-> <<>>,
                         provisioned_resources |-> final.provisioned_resources,
                         invoked |-> iter,
                         appended |-> IF new_services # {} THEN added ELSE <<>>,
                         account_info |-> AccountInfoExisting(final)]
             IN  /\ IF new_services # {}
                    THEN /\ db' = [db EXCEPT ![p] = SavedDb(d, now)]
                         /\ store' = SavedFile(store, d, now)
                    ELSE UNCHANGED <<db, store>>
                 /\ result' = [result EXCEPT ![p] = res]
                 /\ returned' = returned \cup
                        {[key |-> r.key, startup_id |-> final.startup_id,
                          envs |-> EnvIds(final.provisioned_environments)]}
    /\ run' = [run EXCEPT ![p] = NoRun]
    /\ pc' = [pc EXCEPT ![p] = "ready"]
    /\ UNCHANGED <<now, conn, submitted, uuids>>

\* the list of summaries left in the order of the loop
KeepOrder(accounts) == accounts

\* list.sort(key=last_accessed, reverse=True): a stable sort, elements with
\* equal keys keep the order they had
RECURSIVE InsertDescending(_, _)
InsertDescending(sorted, x) ==
    IF sorted = <<>> THEN <<x>>
    ELSE IF Head(sorted).last_accessed >= x.last_accessed
    THEN <<Head(sorted)>> \o InsertDescending(Tail(sorted), x)
    ELSE <<x>> \o sorted

RECURSIVE SortDescending(_)
SortDescending(accounts) ==
    IF accounts = <<>> THEN <<>>
    ELSE InsertDescending(SortDescending(SubSeq(accounts, 1, Len(accounts) - 1)),
                          accounts[Len(accounts)])

SortAccounts(accounts) == SortDescending(accounts)

\* one entry of list_existing_accounts
AccountSummary(key, account_data) ==
    [key |-> key,
     startup_name |-> account_data.startup_info.name,
     founder_email |-> account_data.startup_info.email,
     account_id |-> Get(account_data, "account_id", <<>>),
     created_at |-> Get(account_data, "created_at", 0),
     last_accessed |-> Get(account_data, "last_accessed", 0),
     services_count |-> Len(Get(account_data, "provisioned_resources", <<>>)),
     pipeline_services |-> Get(account_data, "pipeline_services", <<>>)]

\* list_existing_accounts: the summaries in the order in which the dict is
\* iterated, then sorted; nothing is written
ListExistingAccounts(p) ==
    /\ pc[p] = "ready"
    /\ \E iter \in Orders(DOMAIN db[p].accounts) :
          result' = [result EXCEPT ![p] =
             [status |-> "listed", path |-> "list",
              accounts |-> SortAccounts(
                  [i \in 1..Len(iter) |-> AccountSummary(iter[i], db[p].accounts[iter[i]])])]]
    /\ UNCHANGED <<store, now, pc, conn, db, run, submitted, returned, uuids>>

\* the process is killed in the middle of a call: what it held in memory
\* is gone, the accounts file is as the last save left it
Crash(p) ==
    /\ pc[p] \in NewPcs \cup {"existing"}
    /\ pc' = [pc EXCEPT ![p] = "down"]
    /\ db' = [db EXCEPT ![p] = NoDb]
    /\ run' = [run EXCEPT ![p] = NoRun]
    /\ result' = [result EXCEPT ![p] = NoResult]
    /\ UNCHANGED <<store, now, conn, submitted, returned, uuids>>

\* ------------------------------------------------------- specifications
Step(p, infos, lists) ==
    \/ Exit(p)
    \/ \E info \in infos, services \in lists :
          AutoProvisionStart(p, info, services)
    \/ ProvisionAwsEnvironment(p)
    \/ ProvisionGcpEnvironment(p)
    \/ ProvisionResources(p)
    \/ PersistNewAccount(p)
    \/ ExistingAccountDelta(p)

\* one provisioner process, restarted at will, as one server that handles a
\* request to the end before it takes the next one
NextSeq ==
    \/ Construct("p1")
    \/ Step("p1", {Acme}, ServiceLists)

Spec == Init /\ [][NextSeq]_vars

\* several processes at once: server workers, scripts run side by side
ConcLists == { <<"aws_ec2">>, <<"aws_rds">>, <<"metabase">> }

Next ==
    \E p \in Procs :
        \/ Construct(p)
        \/ Step(p, {Acme}, ConcLists)

SpecConc == Init /\ [][Next]_vars

\* first requests of a deployment, with lists of every kind of identifier:
\* AWS, GCP, third-party, deployable and one the catalog does not know
ClassifyPool == {"bigquery", "aws_ec2", "snowflake", "metabase", "kafka"}

ClassifyLists == UNION { [1..n -> ClassifyPool] : n \in 0..MaxClassifyLen }

\* the first request of a deployment: no accounts file has been written
\* and no startup id has been drawn yet
FirstRequest(p, info, services) ==
    /\ ~store.exists
    /\ uuids = 0
    /\ AutoProvisionStart(p, info, services)

NextClassify ==
    \/ Construct("p1")
    \/ \E services \in ClassifyLists : FirstRequest("p1", Acme, services)
    \/ ProvisionAwsEnvironment("p1")
    \/ ProvisionGcpEnvironment("p1")
    \/ ProvisionResources("p1")
    \/ PersistNewAccount("p1")

SpecClassify == Init /\ [][NextClassify]_vars

\* first requests for one service, for every identifier of the catalog
CatalogLists == { <<s>> : s \in Catalog }

NextCatalog ==
    \/ Construct("p1")
    \/ \E services \in CatalogLists : FirstRequest("p1", Acme, services)
    \/ ProvisionAwsEnvironment("p1")
    \/ ProvisionGcpEnvironment("p1")
    \/ ProvisionResources("p1")
    \/ PersistNewAccount("p1")

SpecCatalog == Init /\ [][NextCatalog]_vars

\* one process at a time that can be killed between two steps of a call
CrashLists == { <<"aws_ec2">>, <<"bigquery", "aws_ec2">> }

NextCrash ==
    \/ Construct("p1")
    \/ Step("p1", {Acme}, CrashLists)
    \/ Crash("p1")

SpecCrash == Init /\ [][NextCrash]_vars

\* a record as step 6 writes it for a startup with the mock AWS environment
\* and no resource
WrittenRecordOf(info) ==
    LET sid == NewStartupId(info, 1)
        envs == DictSet(EmptyDict, "aws",
                        [account_id |-> <<"123456789", ToString(sid.hex)>>,
                         account_name |-> info.name,
                         status |-> "active",
                         credentials |-> [region |-> "us-east-1"]])
    IN  DumpRecord(NewAccountData([startup_id |-> sid, info |-> info,
                                   services |-> <<>>,
                                   provisioned_environments |-> envs,
                                   third_party_accounts |-> <<>>,
                                   provisioned_resources |-> <<>>], 0))

WrittenRecord == WrittenRecordOf(Acme)

\* the optional fields list_existing_accounts reads with a default
OptionalFields == {"provisioned_resources", "pipeline_services"}

Without(rec, fields) == [f \in (DOMAIN rec) \ fields |-> rec[f]]

\* records of an accounts file that lack some of the optional fields
LegacyRecords ==
    { Without(WrittenRecord, fs) : fs \in (SUBSET OptionalFields) \ {{}} }

\* a deployment whose accounts file holds such a record
InitLegacy ==
    /\ \E rec \in LegacyRecords :
          store = [exists |-> TRUE, parseable |-> TRUE, writable |-> TRUE,
                   accounts |-> DictSet(EmptyDict, GetAccountKey(Acme), rec),
                   last_updated |-> 0]
    /\ now = 0
    /\ pc = [p \in Procs |-> "down"]
    /\ conn \in Conns
    /\ db = [p \in Procs |-> NoDb]
    /\ run = [p \in Procs |-> NoRun]
    /\ result = [p \in Procs |-> NoResult]
    /\ submitted = [k \in Keys |-> [aws |-> 0, gcp |-> 0]]
    /\ returned = {}
    /\ uuids = 1

NextLegacy ==
    \/ Construct("p1")
    \/ Exit("p1")
    \/ \E services \in ServiceLists : AutoProvisionStart("p1", Acme, services)
    \/ ExistingAccountDelta("p1")

SpecLegacy == InitLegacy /\ [][NextLegacy]_vars

\* an operator lists the accounts between the requests of two startups;
\* the accounts file may hold a record without last_accessed
ListLists == { <<"aws_ec2">> }

InitList ==
    /\ \/ store = [exists |-> FALSE, parseable |-> TRUE, writable |-> TRUE,
                   accounts |-> EmptyDict, last_updated |-> 0]
       \/ store = [exists |-> TRUE, parseable |-> TRUE, writable |-> TRUE,
                   accounts |-> DictSet(EmptyDict, GetAccountKey(Other),
                                        Without(WrittenRecordOf(Other), {"last_accessed"})),
                   last_updated |-> 0]
    /\ now = 0
    /\ pc = [p \in Procs |-> "down"]
    /\ conn \in Conns
    /\ db = [p \in Procs |-> NoDb]
    /\ run = [p \in Procs |-> NoRun]
    /\ result = [p \in Procs |-> NoResult]
    /\ submitted = [k \in Keys |-> [aws |-> 0, gcp |-> 0]]
    /\ returned = {}
    /\ uuids = 1

NextList ==
    \/ Construct("p1")
    \/ Step("p1", StartupInfos, ListLists)
    \/ ListExistingAccounts("p1")

SpecList == InitList /\ [][NextList]_vars

\* the requests of two startups with the separator in their identities
TenantLists == { <<"aws_ec2">>, <<"metabase">> }

NextTenants ==
    \/ Construct("p1")
    \/ Step("p1", TenantInfos, TenantLists)

SpecTenants == Init /\ [][NextTenants]_vars

\* two server workers, each with the requests of one startup
KeysLists == { <<"aws_ec2">> }

NextKeys ==
    \/ \E p \in Procs : Construct(p)
    \/ Step("p1", {Acme}, KeysLists)
    \/ Step("p2", {Other}, KeysLists)

SpecKeys == Init /\ [][NextKeys]_vars

\* requests with a third-party service, on the first call or a later one
ThirdPartyLists == { <<"aws_ec2">>, <<"snowflake">>, <<"aws_ec2", "snowflake">> }

NextThirdParty ==
    \/ Construct("p1")
    \/ Step("p1", {Acme}, ThirdPartyLists)

SpecThirdParty == Init /\ [][NextThirdParty]_vars

\* first requests with the AWS account creation taken step by step
PollLists == { <<"aws_ec2">>, <<"bigquery", "aws_ec2">>, <<"bigquery">> }

NextPoll ==
    \/ Construct("p1")
    \/ \E services \in PollLists : FirstRequest("p1", Acme, services)
    \/ SubmitCreateAccount("p1")
    \/ PollCreateAccountStatus("p1")
    \/ ProvisionGcpEnvironment("p1")
    \/ ProvisionResources("p1")
    \/ PersistNewAccount("p1")

SpecPoll == Init /\ [][NextPoll]_vars

\* the loop goes on: sleep and the status call return
SpecPollFair ==
    Init /\ [][NextPoll]_vars /\ WF_vars(PollCreateAccountStatus("p1"))

\* one process at a time on a file system that can fail
FaultLists == { <<"aws_ec2">>, <<"aws_ec2", "metabase">> }

NextFault ==
    \/ Construct("p1")
    \/ Step("p1", {Acme}, FaultLists)
    \/ CorruptStore
    \/ DiskFault

SpecFault == Init /\ [][NextFault]_vars

TypeOK ==
    /\ now \in 0..MaxCalls
    /\ \A p \in Procs : pc[p] \in {"down", "ready", "existing"} \cup NewPcs
    /\ DOMAIN store.accounts \subseteq Keys

\* ================================================================ claims

\* C1: for one startup identity every call that returns a result returns
\* the same startup_id and the same provider environment identifiers (AWS
\* account_id, GCP project and service account) as the first one.
C1_SameIdentityAcrossCalls ==
    \A r1 \in returned, r2 \in returned :
        r1.key = r2.key => (r1.startup_id = r2.startup_id /\ r1.envs = r2.envs)

\* a later call with a grown service list has returned the stored identity
C1_Witness ==
    \E p \in Procs :
        /\ result[p].status = "success"
        /\ result[p].path = "existing"
        /\ result[p].appended # <<>>
        /\ \E r \in returned : r.key = result[p].key /\ r.envs.aws # <<>>

\* C2: the persisted provisioned_resources of a startup holds at most one
\* entry per distinct service name.
C2_NoDuplicateResources ==
    \A k \in DOMAIN store.accounts :
        LET rs == store.accounts[k].provisioned_resources
        IN  \A i \in 1..Len(rs), j \in 1..Len(rs) :
                rs[i].service = rs[j].service => i = j

\* C3: an existing account with services {A,B} that is asked for {B,C} ends
\* with the persisted pipeline_services {A,B,C}, with a resource provisioner
\* invoked for C only and with at most C's resource appended.
C3_IncrementalMerge ==
    [][\A p \in Procs :
         (pc[p] = "existing" /\ pc'[p] = "ready") =>
            LET k == run[p].key
                old == Range(store.accounts[k].pipeline_services)
                req == Range(run[p].services)
            IN  (Cardinality(old) = 2 /\ Cardinality(req) = 2
                   /\ Cardinality(old \cap req) = 1) =>
                    /\ Range(store'.accounts[k].pipeline_services) = old \cup req
                    /\ Range(result'[p].invoked) = req \ old
                    /\ Len(store'.accounts[k].provisioned_resources)
                          <= Len(store.accounts[k].provisioned_resources) + 1]_vars

\* every service of the list is a catalog service of the given provider
OnlyProvider(services, provider) ==
    /\ services # <<>>
    /\ \A i \in 1..Len(services) :
          services[i] \in Catalog /\ ServiceRequirements[services[i]].provider = provider

\* the environments agree with what the catalog says about the services
ConditionalEnvironments(services, envs) ==
    /\ OnlyProvider(services, "gcp") => ~HasEnv(envs, "aws")
    /\ OnlyProvider(services, "aws") => ~HasEnv(envs, "gcp")
    /\ HasEnv(envs, "gcp") => \E i \in 1..Len(services) : IsGcp(services[i])
    /\ HasEnv(envs, "aws") =>
          \/ \E i \in 1..Len(services) : IsAws(services[i])
          \/ /\ \E i \in 1..Len(services) : IsDeployable(services[i])
             /\ ~\E i \in 1..Len(services) : IsGcp(services[i])

\* C4: on the new-account path an environment exists only for a provider
\* the service list requires: a GCP-only list never yields an 'aws'
\* environment and an AWS-only list never yields a 'gcp' environment.
C4_ConditionalProvisioning ==
    \A p \in Procs :
        /\ run[p].path = "new" =>
              ConditionalEnvironments(run[p].services, run[p].provisioned_environments)
        /\ (result[p].status = "success" /\ result[p].path = "new") =>
              ConditionalEnvironments(result[p].services,
                                      result[p].provisioned_environments)

\* a GCP-only list was provisioned: a 'gcp' environment and no 'aws' one
C4_Witness ==
    \E p \in Procs :
        /\ result[p].status = "success"
        /\ result[p].path = "new"
        /\ OnlyProvider(result[p].services, "gcp")
        /\ HasEnv(result[p].provisioned_environments, "gcp")
        /\ ~HasEnv(result[p].provisioned_environments, "aws")

\* C5: no environment or resource provisioner raises: no call ends with an
\* exception that a provisioner let out.
C5_ProvisionersNeverRaise ==
    \A p \in Procs :
        result[p].status = "error" =>
            result[p].raised_by \notin {"_create_aws_subaccount", "_create_gcp_project"}

\* C6: an account that holds only the GCP environment of a first call for
\* [bigquery] and is asked for [bigquery, aws_ec2] keeps its GCP
\* environment, gets an AWS environment and holds 2 resources afterwards.
C6_MissingEnvironmentCreated ==
    [][\A p \in Procs :
         (pc[p] = "existing" /\ pc'[p] = "ready") =>
            LET k == run[p].key
                before == store.accounts[k]
                after == store'.accounts[k]
            IN  (/\ before.pipeline_services = <<"bigquery">>
                 /\ DOMAIN before.provisioned_environments = {"gcp"}
                 /\ Len(before.provisioned_resources) = 1
                 /\ run[p].services = <<"bigquery", "aws_ec2">>) =>
                    /\ after.provisioned_environments["gcp"]
                          = before.provisioned_environments["gcp"]
                    /\ HasEnv(after.provisioned_environments, "aws")
                    /\ Len(after.provisioned_resources) = 2]_vars

\* the display name of the resource of a supported GCP service
GcpResourceName(service) == IF service = "bigquery" THEN "BigQuery" ELSE "Looker"

\* C7: on the new-account path a list that needs GCP yields a 'gcp'
\* environment and a resource for every requested bigquery or looker, with
\* or without credentials.
C7_GcpFlowWithoutCredentials ==
    \A p \in Procs :
        (/\ result[p].status = "success"
         /\ result[p].path = "new"
         /\ result[p].requirements.needs_gcp_project) =>
            /\ HasEnv(result[p].provisioned_environments, "gcp")
            /\ \A i \in 1..Len(result[p].services) :
                  result[p].services[i] \in {"bigquery", "looker"} =>
                      \E j \in 1..Len(result[p].provisioned_resources) :
                          result[p].provisioned_resources[j].service
                              = GcpResourceName(result[p].services[i])

\* C8: a provider receives at most one environment-creation request per
\* startup, whatever fails and is retried.
C8_EnvironmentRequestedOnce ==
    \A k \in Keys : submitted[k].aws <= 1 /\ submitted[k].gcp <= 1

\* C9: two runs for one key are never both on the new-account path.
C9_NewAccountPathSerialized ==
    \A p \in Procs, q \in Procs :
        (p # q /\ pc[p] \in NewPcs /\ pc[q] \in NewPcs) => run[p].key # run[q].key

\* C10: when two runs on the existing-account path of one key have both
\* appended resources, the persisted record holds the resources of both.
C10_NoLostUpdate ==
    \A p \in Procs, q \in Procs :
        (/\ p # q
         /\ result[p].status = "success" /\ result[q].status = "success"
         /\ result[p].path = "existing" /\ result[q].path = "existing"
         /\ result[p].key = result[q].key
         /\ result[p].appended # <<>> /\ result[q].appended # <<>>) =>
            /\ result[p].key \in DOMAIN store.accounts
            /\ Range(result[p].appended) \cup Range(result[q].appended)
                  \subseteq Range(store.accounts[result[p].key].provisioned_resources)

\* C11: a process never comes up on an accounts file that exists but cannot
\* be parsed (the load fails instead of yielding an empty registry), and no
\* account that was persisted ever disappears from the file.
C11_CorruptStoreIsFatal ==
    [][/\ \A p \in Procs :
            (pc[p] = "down" /\ store.exists /\ ~store.parseable) => pc'[p] # "ready"
       /\ DOMAIN store.accounts \subseteq DOMAIN store'.accounts]_vars

\* C12: when a call returns a result with status 'success' the accounts file
\* holds the record of the key exactly as the registry in memory does.
C12_SuccessMeansPersisted ==
    [][\A p \in Procs :
         (pc[p] \notin {"down", "ready"} /\ pc'[p] = "ready"
            /\ result'[p].status = "success") =>
            LET k == result'[p].key
            IN  /\ store'.exists /\ store'.parseable
                /\ k \in DOMAIN store'.accounts
                /\ store'.accounts[k] = DumpRecord(db'[p].accounts[k])]_vars

\* C13: a call for a key that has a record sets last_accessed of the record
\* to the time of the call, in memory and in the file, whatever it requests;
\* last_accessed of a persisted record never decreases and its created_at
\* never changes.
C13_LastAccessedBumped ==
    [][/\ \A p \in Procs :
            (pc[p] = "ready" /\ pc'[p] = "existing") =>
                /\ db'[p].accounts[run'[p].key].last_accessed = now'
                /\ store'.accounts[run'[p].key].last_accessed = now'
       /\ \A k \in DOMAIN store.accounts :
            /\ k \in DOMAIN store'.accounts
            /\ store'.accounts[k].last_accessed >= store.accounts[k].last_accessed
            /\ store'.accounts[k].created_at = store.accounts[k].created_at]_vars

\* a call that requests nothing new has bumped last_accessed of a record
\* created by an earlier call
C13_Witness ==
    \E p \in Procs :
        /\ pc[p] = "existing"
        /\ Range(run[p].services) \subseteq
              Range(store.accounts[run[p].key].pipeline_services)
        /\ store.accounts[run[p].key].last_accessed = now
        /\ store.accounts[run[p].key].created_at < now

\* C14: when the polling of the account creation ends, with SUCCEEDED,
\* FAILED or the timeout, the run goes on to the other providers: it is not
\* aborted.
C14_AwsFailureDoesNotAbort ==
    [][\A p \in Procs :
         (pc[p] = "aws_polling" /\ pc'[p] # "aws_polling") => pc'[p] = "new_gcp"]_vars

\* what the polling loop is allowed to do in a step
C15_PollStep ==
    \A p \in Procs :
        pc[p] = "aws_polling" =>
            /\ submitted' = submitted
            /\ pc'[p] = "aws_polling" => run'[p].attempt = run[p].attempt + 1
            /\ pc'[p] # "aws_polling" =>
                  \/ /\ pc'[p] = "new_gcp"
                     /\ HasEnv(run'[p].provisioned_environments, "aws")
                  \/ /\ pc'[p] = "ready"
                     /\ result'[p].status = "error"
                     /\ result'[p].outcome \in {"FAILED", "TIMEOUT"}
                     /\ result'[p].outcome = "TIMEOUT" =>
                            run[p].attempt = MaxAttempts - 1

MarkedMock(env) ==
    \/ env.status \in {"mock", "mock_created", "fallback"}
    \/ "note" \in DOMAIN env

\* the AWS services _provision_service_resource has a routine for
AwsProvisioned == {"aws_rds", "redshift", "aws_ec2", "s3", "aws_s3"}

\* C16: without a connection to the AWS master account a run that needs AWS
\* does not abort; its 'aws' environment descriptor is marked as a mock and
\* every requested AWS service with a provisioning routine gets a resource
\* descriptor.
C16_AwsMockEnvironmentMarked ==
    \A p \in Procs :
        /\ (result[p].status = "error" /\ result[p].path = "new") => conn.aws_connected
        /\ (/\ result[p].status = "success"
            /\ result[p].path = "new"
            /\ result[p].requirements.needs_aws_account
            /\ ~conn.aws_connected) =>
               /\ HasEnv(result[p].provisioned_environments, "aws")
               /\ MarkedMock(result[p].provisioned_environments["aws"])
               /\ Len(result[p].provisioned_resources) >=
                     Len(SelectSeq(result[p].services, LAMBDA x : x \in AwsProvisioned))

\* C19: a GCP environment descriptor with isolation_level 'basic_shared' or
\* 'fallback' carries a note that explains the degradation.
C19_DegradedGcpCarriesNote ==
    \A p \in Procs :
        (result[p].status = "success"
           /\ HasEnv(result[p].provisioned_environments, "gcp")) =>
            LET gcp == result[p].provisioned_environments["gcp"]
            IN  gcp.isolation_level \in {"basic_shared", "fallback"} => gcp.note # "none"

\* the identifiers of a list that the catalog knows
Recognized(services) == SelectSeq(services, LAMBDA x : x \in Catalog)

\* C17: the classification of a list with unrecognized identifiers is the
\* classification of the list without them, and a run with an unrecognized
\* identifier ends with an error only where the run for the recognized
\* identifiers can: in the creation of a required AWS account.
C17_UnknownIdentifiersSkipped ==
    \A p \in Procs :
        /\ run[p].path = "new" =>
              run[p].requirements = AnalyzePipelineRequirements(Recognized(run[p].services))
        /\ result[p].status = "error" =>
              /\ result[p].raised_by = "_create_aws_subaccount"
              /\ NeedsAwsAccount(Recognized(result[p].services))

\* a run with an unrecognized identifier next to bigquery has returned its
\* result with the BigQuery resource
C17_Witness ==
    \E p \in Procs :
        /\ result[p].status = "success"
        /\ "kafka" \in Range(result[p].services)
        /\ "bigquery" \in Range(result[p].services)
        /\ \E i \in 1..Len(result[p].provisioned_resources) :
              result[p].provisioned_resources[i].service = "BigQuery"

\* C18: a deployable service with no AWS and no GCP service sets
\* needs_aws_account and the deployment provider 'aws'; with AWS and GCP both
\* required the provider is 'aws'; it is 'gcp' only when GCP is required and
\* AWS is not; it is set exactly when a deployable service is requested.
C18_DeploymentProvider ==
    \A p \in Procs :
        run[p].path = "new" =>
            LET l == run[p].services
                req == run[p].requirements
                anyAws == \E i \in 1..Len(l) : IsAws(l[i])
                anyGcp == \E i \in 1..Len(l) : IsGcp(l[i])
                anyDep == \E i \in 1..Len(l) :
                              l[i] \in Catalog /\ ServiceRequirements[l[i]].provider = "deployable"
            IN  /\ (anyDep /\ ~anyAws /\ ~anyGcp) =>
                      (req.needs_aws_account /\ req.deployment_provider = "aws")
                /\ (anyDep /\ anyAws /\ anyGcp) => req.deployment_provider = "aws"
                /\ req.deployment_provider = "gcp" => (anyGcp /\ ~anyAws)
                /\ req.deployment_provider # "unset" <=> anyDep
                /\ req.deployment_provider \in {"aws", "gcp", "unset"}

\* a list with an AWS, a GCP and a deployable service is being provisioned
\* with the deployment provider 'aws'
C18_Witness ==
    \E p \in Procs :
        /\ run[p].path = "new"
        /\ {"aws_ec2", "bigquery", "metabase"} \subseteq Range(run[p].services)
        /\ run[p].requirements.deployment_provider = "aws"
        /\ run[p].requirements.needs_gcp_project

\* a descriptor that tells it is not the real thing
Degraded(descriptor) ==
    descriptor.status \in {"mock_created", "creation_failed"}

\* C20: every result a call returns, on the new-account path and on the
\* existing-account path, has status 'success', degraded descriptors or not.
C20_AlwaysSuccess ==
    [][\A p \in Procs :
         (pc[p] \in {"new_persist", "existing"} /\ pc'[p] = "ready") =>
             result'[p].status = "success"]_vars

\* the existing-account path has returned 'success' with a degraded
\* resource descriptor in the result
C20_Witness ==
    \E p \in Procs :
        /\ result[p].status = "success"
        /\ result[p].path = "existing"
        /\ \E i \in 1..Len(result[p].provisioned_resources) :
              Degraded(result[p].provisioned_resources[i])

\* C21: a freshly constructed provisioner holds every record of the
\* accounts file, and a request for a key that has a record in the file
\* takes the existing-account path.
C21_SameRecordAcrossRestarts ==
    [][\A p \in Procs :
         /\ (pc[p] = "down" /\ pc'[p] = "ready") =>
                \A k \in DOMAIN store.accounts :
                    /\ k \in DOMAIN db'[p].accounts
                    /\ db'[p].accounts[k].startup_id = store.accounts[k].startup_id
         /\ (pc[p] = "ready" /\ pc'[p] \notin {"ready", "down"}) =>
                (run'[p].key \in DOMAIN store.accounts => pc'[p] = "existing")]_vars

\* a request is on the existing-account path with a record that was loaded
\* from the file, not created by this instance
C21_Witness ==
    \E p \in Procs :
        /\ pc[p] = "existing"
        /\ ~db[p].accounts[run[p].key].pkg_aliased
        /\ db[p].accounts[run[p].key].startup_id = store.accounts[run[p].key].startup_id

\* two registries hold the same keys and, per key, the same fields
SameRegistry(a, b) ==
    /\ DOMAIN a.accounts = DOMAIN b.accounts
    /\ \A k \in DOMAIN a.accounts :
          /\ DOMAIN a.accounts[k] = DOMAIN b.accounts[k]
          /\ \A f \in (DOMAIN a.accounts[k]) \ {"pkg_aliased"} :
                a.accounts[k][f] = b.accounts[k][f]
    /\ a.last_updated = b.last_updated

IsPrefix(a, b) == Len(a) <= Len(b) /\ \A i \in 1..Len(a) : a[i] = b[i]

\* C24: no account key ever leaves the accounts file and the
\* provisioned_resources of a record only grows at its end.
C24_OnlyGrows ==
    [][\A k \in DOMAIN store.accounts :
         /\ k \in DOMAIN store'.accounts
         /\ IsPrefix(store.accounts[k].provisioned_resources,
                     store'.accounts[k].provisioned_resources)]_vars

\* a later call has appended a resource to a record that held one
C24_Witness ==
    \E p \in Procs :
        /\ result[p].status = "success"
        /\ result[p].path = "existing"
        /\ result[p].appended # <<>>
        /\ Len(store.accounts[result[p].key].provisioned_resources) >= 2

\* the environments one of which the routine of a descriptor requires
RequiredEnvs(resource) ==
    IF resource.service \in {"BigQuery", "Looker"} THEN {"gcp"}
    ELSE IF resource.service = "Metabase" THEN {"aws", "gcp"}
    ELSE {"aws"}

\* C26: no resource provisioner starts before the environment provisioner
\* of its provider has returned: an environment is added to a run only
\* while no resource provisioner has been invoked, the resource step leaves
\* the environments as they are, and every descriptor it produces has an
\* environment of its provider that existed before the step.
C26_EnvironmentBeforeResources ==
    [][\A p \in Procs :
         /\ (run[p].path = "new" /\ run'[p].path = "new"
               /\ run'[p].provisioned_environments # run[p].provisioned_environments) =>
                /\ pc[p] \in {"new_aws", "aws_polling", "new_gcp"}
                /\ run[p].invoked = <<>>
                /\ run[p].provisioned_resources = <<>>
         /\ (pc[p] = "new_resources" /\ pc'[p] = "new_persist") =>
                /\ run'[p].provisioned_environments = run[p].provisioned_environments
                /\ \A i \in 1..Len(run'[p].provisioned_resources) :
                      RequiredEnvs(run'[p].provisioned_resources[i])
                         \cap DOMAIN run[p].provisioned_environments # {}
         /\ (pc[p] = "new_persist" /\ result'[p].status = "success") =>
                result'[p].provisioned_environments = run[p].provisioned_environments
         /\ (pc[p] = "existing" /\ result'[p].status = "success") =>
                \A i \in 1..Len(result'[p].appended) :
                    RequiredEnvs(result'[p].appended[i])
                       \cap DOMAIN db[p].accounts[run[p].key].provisioned_environments
                       # {}]_vars

\* the resources of a run were produced with both environments in place
C26_Witness ==
    \E p \in Procs :
        /\ pc[p] = "new_persist"
        /\ DOMAIN run[p].provisioned_environments = {"aws", "gcp"}
        /\ Len(run[p].provisioned_resources) >= 2

\* C27: a GCP environment is returned with isolation_level
\* 'enhanced_shared' only when the dedicated service account was set up; a
\* failed creation degrades the environment to 'basic_shared' or 'fallback'.
C27_EnhancedOnlyWhenSetUp ==
    \A p \in Procs :
        (result[p].status = "success"
           /\ HasEnv(result[p].provisioned_environments, "gcp")) =>
            LET gcp == result[p].provisioned_environments["gcp"]
            IN  /\ gcp.isolation_level = "enhanced_shared" =>
                      gcp.credentials.status = "active"
                /\ gcp.credentials.status = "creation_failed" =>
                      gcp.isolation_level \in {"basic_shared", "fallback"}

\* the environment of the provider of a cloud or deployable service is
\* present
EnvPresent(service, envs) ==
    IF ServiceRequirements[service].provider = "aws" THEN HasEnv(envs, "aws")
    ELSE IF ServiceRequirements[service].provider = "gcp" THEN HasEnv(envs, "gcp")
    ELSE HasEnv(envs, "aws") \/ HasEnv(envs, "gcp")

\* C28: for every cloud or deployable service of the catalog
\* _provision_service_resource returns a descriptor when the environment
\* of the provider is present, and None only when it is absent.
C28_DescriptorForEveryCatalogService ==
    \A p \in Procs :
        (pc[p] = "new_persist"
           /\ \A i \in 1..Len(run[p].services) :
                 run[p].services[i] \in Catalog /\ ~IsThirdParty(run[p].services[i])) =>
            Len(run[p].provisioned_resources) =
               Len(SelectSeq(run[p].services,
                             LAMBDA x : EnvPresent(x, run[p].provisioned_environments)))

\* the descriptors a process holds, in its run or in its result
HeldResources(p) ==
    (IF run[p].path = "new" THEN Range(run[p].provisioned_resources) ELSE {})
       \cup (IF result[p].status = "success"
              THEN Range(result[p].provisioned_resources) ELSE {})

\* C29: a descriptor of the RDS, Redshift, EC2, S3 and BigQuery routines
\* whose real creation failed has status 'mock_created' or 'creation_failed'
\* and a note that quotes the failure, and the failure does not end the run
\* with an exception.
C29_FailedCreationCarriesReason ==
    \A p \in Procs :
        /\ \A r \in HeldResources(p) :
              r.service \in {"AWS RDS", "AWS Redshift", "AWS EC2", "AWS S3", "BigQuery"} =>
                 /\ r.status \in {"mock_created", "creation_failed"} <=> r.note # "none"
                 /\ r.status \in {"mock_created", "creation_failed"} => r.note = "reason"
        /\ result[p].status = "error" => result[p].raised_by = "_create_aws_subaccount"

\* the list of the classification a catalog service belongs to
ListOf(service) ==
    IF ServiceRequirements[service].provider = "aws" THEN "aws_services"
    ELSE IF ServiceRequirements[service].provider = "gcp" THEN "gcp_services"
    ELSE IF ServiceRequirements[service].type = "third_party" THEN "third_party_services"
    ELSE "deployable_services"

ClassLists == {"aws_services", "gcp_services", "third_party_services",
               "deployable_services"}

\* C30: the classification puts every recognized identifier in exactly one
\* of the four lists, the one of its catalog provider; needs_gcp_project is
\* true exactly when gcp_services is not empty; needs_third_party_accounts
\* has one (service, provider) entry per third-party service.
C30_ClassificationPartitions ==
    \A p \in Procs :
        run[p].path = "new" =>
            LET q == run[p].requirements
                tps == q.third_party_services
            IN  /\ \A i \in 1..Len(run[p].services) :
                      run[p].services[i] \in Catalog =>
                         \A l \in ClassLists :
                            (run[p].services[i] \in Range(q[l]))
                               <=> (l = ListOf(run[p].services[i]))
                /\ Len(q.aws_services) + Len(q.gcp_services) + Len(tps)
                      + Len(q.deployable_services) = Len(Recognized(run[p].services))
                /\ q.needs_gcp_project <=> (q.gcp_services # <<>>)
                /\ Len(q.needs_third_party_accounts) = Len(tps)
                /\ \A j \in 1..Len(tps) :
                      q.needs_third_party_accounts[j] =
                         [service |-> tps[j],
                          provider |-> ServiceRequirements[tps[j]].provider]

\* a request with a GCP, a third-party and a deployable service was
\* classified
C30_Witness ==
    \E p \in Procs :
        /\ run[p].path = "new"
        /\ run[p].requirements.gcp_services # <<>>
        /\ run[p].requirements.deployable_services # <<>>
        /\ Len(run[p].requirements.needs_third_party_accounts) = 1

\* C23: the existing-account path accepts a record without the optional
\* fields: a call for a startup with a record ends with a result, not with an
\* exception, and the resources it provisioned are in the stored record.
C23_LegacyRecordTolerated ==
    \A p \in Procs :
        (result[p].status # "none" /\ result[p].path = "existing") =>
            /\ result[p].status = "success"
            /\ \A i \in 1..Len(result[p].appended) :
                  result[p].appended[i]
                     \in Range(Get(store.accounts[result[p].key],
                                   "provisioned_resources", <<>>))

\* C25: when the process is killed in the middle of a call, the accounts
\* file holds what the steps before had produced: the environments already
\* created and the resources already appended.
C25_WriteThrough ==
    [][\A p \in Procs :
         (pc[p] \in NewPcs /\ pc'[p] = "down") =>
             LET r == run[p] IN
             (DOMAIN r.provisioned_environments # {} \/ r.provisioned_resources # <<>>) =>
                /\ r.key \in DOMAIN store'.accounts
                /\ \A e \in DOMAIN r.provisioned_environments :
                      /\ e \in DOMAIN store'.accounts[r.key].provisioned_environments
                      /\ store'.accounts[r.key].provisioned_environments[e]
                            = r.provisioned_environments[e]
                /\ \A i \in 1..Len(r.provisioned_resources) :
                      r.provisioned_resources[i]
                         \in Range(store'.accounts[r.key].provisioned_resources)]_vars

C32_ResourceNamesDistinct ==
    \A k \in DOMAIN store.accounts :
        LET rs == store.accounts[k].provisioned_resources
        IN  \A i \in 1..Len(rs), j \in 1..Len(rs) :
               i # j => rs[i].name # rs[j].name

\* two identities are the same startup: the names are equal up to case and
\* to a space written as a hyphen, the e-mails are equal up to case
SameIdentity(a, b) ==
    /\ ReplaceChar(LowerStr(a.name), " ", "-") = ReplaceChar(LowerStr(b.name), " ", "-")
    /\ LowerStr(a.email) = LowerStr(b.email)

\* C33: the account key separates tenants: identities that differ in name
\* or e-mail have different keys, so a call that takes the existing-account
\* path works on a record of its own startup.
C33_KeySeparatesTenants ==
    \A p \in Procs :
        /\ pc[p] = "existing" =>
              SameIdentity(db[p].accounts[run[p].key].startup_info, run[p].info)
        /\ pc[p] \in NewPcs =>
              \A a \in TenantInfos \cup StartupInfos :
                  GetAccountKey(a) = run[p].key => SameIdentity(a, run[p].info)

\* the 'service' of the descriptor the routine of an identifier returns
DescriptorService(service) ==
    CASE service = "bigquery" -> "BigQuery"
      [] service = "looker" -> "Looker"
      [] service = "aws_rds" -> "AWS RDS"
      [] service = "redshift" -> "AWS Redshift"
      [] service = "aws_ec2" -> "AWS EC2"
      [] service = "metabase" -> "Metabase"
      [] service \in {"s3", "aws_s3"} -> "AWS S3"
      [] OTHER -> "None"

\* C34: a requested service for which no resource was produced is not
\* recorded as provisioned: every identifier in the stored pipeline_services
\* of a record has a descriptor in its provisioned_resources, so that a later
\* request for a service without one is a delta.
C34_UnprovisionedNotRecorded ==
    \A k \in DOMAIN store.accounts :
        \A s \in Range(store.accounts[k].pipeline_services) :
            \E r \in Range(store.accounts[k].provisioned_resources) :
                r.service = DescriptorService(s)

\* C35: instances that run at the same time for different startups do not
\* lose each other's writes: the record of a startup whose call returned
\* with success is in the accounts file, also after the other instance has
\* saved.
C35_DifferentKeysKeepBothRecords ==
    \A p \in Procs :
        result[p].status = "success" => result[p].key \in DOMAIN store.accounts

\* C36: when an environment provisioner fails on the new-account path the
\* registry is as it was: the step changes neither the registry in memory
\* nor the accounts file, neither holds a record for the key, and the next
\* call for the key takes the new-account path again.
C36_FailureLeavesRegistry ==
    [][\A p \in Procs :
         /\ (pc[p] \in NewPcs /\ result'[p].status = "error") =>
                /\ db'[p] = db[p]
                /\ store' = store
                /\ result'[p].key \notin DOMAIN db'[p].accounts
                /\ result'[p].key \notin DOMAIN store'.accounts
         /\ (pc[p] = "ready" /\ result[p].status = "error" /\ result[p].path = "new"
               /\ pc'[p] \notin {"ready", "down"} /\ run'[p].key = result[p].key) =>
                pc'[p] = "new_aws"]_vars

\* after a failed creation the next call for the startup is on the
\* new-account path, with a creation request sent before
C36_Witness ==
    \E p \in Procs :
        /\ pc[p] = "new_aws"
        /\ submitted[run[p].key].aws >= 1
        /\ run[p].key \notin DOMAIN store.accounts

\* C37: a call on the existing-account path that requests no service
\* outside the stored pipeline_services changes only last_accessed in the
\* record and invokes no provisioner.
C37_NoDeltaChangesOnlyLastAccessed ==
    [][\A p \in Procs :
         /\ (pc[p] = "ready" /\ pc'[p] = "existing") =>
                LET k == run'[p].key IN
                /\ DOMAIN store'.accounts[k] = DOMAIN store.accounts[k]
                /\ \A f \in (DOMAIN store.accounts[k]) \ {"last_accessed"} :
                      store'.accounts[k][f] = store.accounts[k][f]
                /\ submitted' = submitted
         /\ (pc[p] = "existing" /\ pc'[p] = "ready"
               /\ Range(run[p].services)
                     \subseteq Range(store.accounts[run[p].key].pipeline_services)) =>
                /\ store'.accounts[run[p].key] = store.accounts[run[p].key]
                /\ result'[p].invoked = <<>>
                /\ submitted' = submitted]_vars

\* a call that asked for a stored service again has returned
C37_Witness ==
    \E p \in Procs :
        /\ result[p].status = "success"
        /\ result[p].path = "existing"
        /\ result[p].services # <<>>
        /\ result[p].invoked = <<>>
        /\ LET rec == store.accounts[result[p].key]
           IN  rec.last_accessed > rec.created_at /\ rec.provisioned_resources # <<>>

\* C38: the third-party accounts created for a startup are part of its
\* record and every call for the startup returns them in
\* third_party_accounts; a third-party service requested on a later call has
\* an account in the result of that call too.
C38_ThirdPartyAccountsReturned ==
    \A p \in Procs :
        (result[p].status = "success" /\ result[p].key \in DOMAIN store.accounts) =>
            /\ \A a \in Range(store.accounts[result[p].key]
                                  .access_package.third_party_accounts) :
                  a \in Range(result[p].third_party_accounts)
            /\ \A s \in Range(result[p].services) :
                  IsThirdParty(s) =>
                      \E a \in Range(result[p].third_party_accounts) : a.service = s

\* C39: account_info is a function of the account, not of the path: a call
\* on the existing-account path reports the provider and account_id that the
\* call which created the account reports for these environments, and
\* account_info is present whenever the account has an environment.
C39_AccountInfoSameOnBothPaths ==
    \A p \in Procs :
        result[p].status = "success" =>
            LET envs == result[p].provisioned_environments
                info == result[p].account_info
            IN  /\ DOMAIN envs # {} => info.present
                /\ info.provider = AccountInfoNew(envs).provider
                /\ info.account_id = AccountInfoNew(envs).account_id

\* C40: in every stored account record the access package reflects the
\* record: access_package.resources is provisioned_resources and
\* access_package.environments is provisioned_environments, also after calls
\* that appended resources and after the registry was loaded from the file.
C40_AccessPackageReflectsRecord ==
    \A k \in DOMAIN store.accounts :
        /\ store.accounts[k].access_package.resources
              = store.accounts[k].provisioned_resources
        /\ store.accounts[k].access_package.environments
              = store.accounts[k].provisioned_environments

====
